---- MODULE Spec2Model ----
(***************************************************************************)
(* logone: a facade over a logging.Logger with a console sink, an optional *)
(* timed-rotating file sink, an optional Loggly (HTTP) sink and two        *)
(* adapters that redirect sys.stdout / sys.stderr into the logger.         *)
(*                                                                         *)
(* A state is: the underlying logging.Logger (logger), the LogOne instance *)
(* wrapped around it (self), the process streams (sys), the Registry       *)
(* (registry), what the last call did (out) and a history of the inputs    *)
(* (hist): the flag of the last redirect_stdout / redirect_stderr call,    *)
(* the level of the last such call with enabled=True, whether the second   *)
(* LogOne made the last redirect call with enabled=True, how many calls    *)
(* that attach a sink threads have made (2: two or more) and whether one   *)
(* made a call that detaches one, and the non-empty                        *)
(* chunks that reached the error adapter since its last flush.  Text is a  *)
(* sequence of one-character strings.                                      *)
(*                                                                         *)
(* A second LogOne of the same process, constructed for another logger     *)
(* name, is kept with its logging.Logger in `other`; sys.stdout and        *)
(* sys.stderr are the process's, shared by the two.                        *)
(*                                                                         *)
(* Calls made from several threads on one LogOne run statement by          *)
(* statement: `threads` holds, for each thread, the call it is in and the  *)
(* statement it is at, and `heap` the handler objects that the LogOne      *)
(* refers to while they are not on the logger's handler list.              *)
(***************************************************************************)
EXTENDS Integers, Sequences, FiniteSets, TLC

VARIABLES registry, logger, self, sys, out, hist, other, threads, heap

vars == <<registry, logger, self, sys, out, hist, other, threads, heap>>

\* ------------------------------------------------------------ bounds
\* longest chunk handed to one write()
MaxChunk == 2
\* longest text the error adapter's buffer holds between two steps
MaxBuf == 3
\* threads that call into one LogOne
NumThreads == 2
\* handler objects alive at a time while threads attach and detach sinks
MaxHandlers == 3

\* ------------------------------------------------------- severity levels
DEBUG == 10
INFO == 20
WARNING == 30
ERROR == 40
CRITICAL == 50
Levels == {DEBUG, INFO, WARNING, ERROR, CRITICAL}
\* level of a logger that was never given one: it inherits its parent's
NOTSET == 0
\* the root logger's level, which a fresh named logger inherits
RootLevel == WARNING

\* ------------------------------------------------------------- inputs
Names == {"example"}
\* use_file's arguments but enabled and level: none given (the defaults), and
\* two that differ in the path, the rotation and the format
FileArgs ==
  {[file_name |-> "", when |-> "d", backup_count |-> 30, log_format |-> ""],
   [file_name |-> "logs/a.log", when |-> "d", backup_count |-> 10, log_format |-> ""],
   [file_name |-> "logs/b.log", when |-> "h", backup_count |-> 30, log_format |-> "custom"]}
\* use_loggly's arguments but enabled and level, likewise
LogglyArgs ==
  {[loggly_token |-> "", loggly_tag |-> "", log_format |-> ""],
   [loggly_token |-> "TOKEN-A", loggly_tag |-> "", log_format |-> ""],
   [loggly_token |-> "TOKEN-B", loggly_tag |-> "Python,Example", log_format |-> "custom"]}
\* what the HTTP POST of the Loggly sink comes back with
Responses == {"ok", "transport", "timeout", "status", "body"}
\* thresholds given to the constructor, to set_level and to the sinks
Thresholds == {DEBUG, WARNING, ERROR}
\* log levels a redirection adapter is configured with
AdapterLevels == {INFO, ERROR}
Chars == {" ", "a"}
Whitespace == {" "}

RECURSIVE TextsOf(_)
TextsOf(n) ==
  IF n = 0 THEN {<<>>}
  ELSE LET shorter == TextsOf(n - 1)
       IN shorter \cup {Append(t, c) : t \in {u \in shorter : Len(u) = n - 1}, c \in Chars}

Chunks == TextsOf(MaxChunk)
\* the message of a direct debug()/info()/... call
Msg == <<"a">>
\* text of a formatted exception traceback (it ends with a line break)
TraceText == <<"T", "\n">>
\* what Handler.handleError prints to sys.stderr
Diagnostic == <<"a">>

\* ------------------------------------------------------ pure helpers
RECURSIVE lstrip(_)
lstrip(t) == IF t # <<>> /\ Head(t) \in Whitespace THEN lstrip(Tail(t)) ELSE t

RECURSIVE rstrip(_)
rstrip(t) ==
  IF t # <<>> /\ t[Len(t)] \in Whitespace THEN rstrip(SubSeq(t, 1, Len(t) - 1)) ELSE t

\* str.strip()
strip(t) == rstrip(lstrip(t))

\* json.dumps(msg)[1:-1]: the text escaped for a JSON string, quotes cut off
RECURSIVE json_escape(_)
json_escape(t) ==
  IF t = <<>> THEN <<>>
  ELSE (IF Head(t) = "\n" THEN <<"\\", "n">> ELSE <<Head(t)>>) \o json_escape(Tail(t))

None == 0

\* the ids of the handlers of a handler list
Ids(hs) == {hs[i].id : i \in 1..Len(hs)}

\* a new object's identity: one no live handler has
FreshId(hs) == CHOOSE i \in 1..(Len(hs) + 1) : i \notin Ids(hs)

\* Logger.removeHandler: the list without the handler of that identity
RECURSIVE removeHandler(_, _)
removeHandler(hs, id) ==
  IF hs = <<>> THEN <<>>
  ELSE IF Head(hs).id = id THEN removeHandler(Tail(hs), id)
       ELSE <<Head(hs)>> \o removeHandler(Tail(hs), id)

\* Logger.addHandler: appended unless this very handler is in the list
addHandler(hs, h) == IF h.id \in Ids(hs) THEN hs ELSE Append(hs, h)

Handler(id, kind, level, fmt, target, rotation, tag) ==
  [id |-> id, kind |-> kind, level |-> level, fmt |-> fmt,
   target |-> target, rotation |-> rotation, tag |-> tag]

NoRotation == [when |-> "", backup_count |-> 0]

OfKind(hs, kind) == {i \in 1..Len(hs) : hs[i].kind = kind}

\* the optional sink kinds, the call that attaches one and the LogOne's
\* reference to it
Kinds == {"file", "loggly"}
OpOf(kind) == IF kind = "file" THEN "use_file" ELSE "use_loggly"
Ref(me, kind) == IF kind = "file" THEN me.file_handler ELSE me.loggly_handler

\* Logger.getEffectiveLevel
getEffectiveLevel(lg) == IF lg.level = NOTSET THEN RootLevel ELSE lg.level

\* ------------------------------------------------------------- state
\* A state value s bundles the four program variables, so that an operation
\* that calls another one (a flush that logs, a sink that reports a failure
\* to sys.stderr) is the composition of their operators.
State == [logger |-> logger, self |-> self, sys |-> sys, out |-> out]

\* What the last call did: the call (op; enabled: its flag; level: its level
\* argument; arg: the file name or token; text: the chunk given to a write;
\* before: whether the sink it is about was attached when it started; ret:
\* the identity of the LogOne it returned), the exception it raised
\* (raised, "" for a normal return), the logger.log calls it made (calls),
\* the records handed to sinks in dispatch order, each with the text the sink
\* made of it (delivered), the HTTP POSTs
\* (posts) with the last response (resp), the handleError calls (errors) and,
\* for a write or flush on a process stream, the stream it went to (stream);
\* name: the logger name of the LogOne the call was made on, when that is the
\* second one.
NoOut ==
  [op |-> "", enabled |-> FALSE, raised |-> "", calls |-> <<>>, delivered |-> <<>>,
   posts |-> 0, resp |-> "", errors |-> 0, stream |-> "", ret |-> 0, text |-> <<>>,
   level |-> 0, arg |-> "", before |-> FALSE, name |-> ""]

\* the observation of a call that starts now
Begin(s, op, enabled) == [s EXCEPT !.out = [NoOut EXCEPT !.op = op, !.enabled = enabled]]

Raise(s, exc) == [s EXCEPT !.out.raised = exc]

NoLogger == [level |-> NOTSET, disabled |-> FALSE, handlers |-> <<>>]

\* instance: the identity of the LogOne object (0: none constructed yet);
\* stdout_wrapper / stderr_wrapper: None or 1 (the adapter object exists), with
\* the adapter's own fields beside it (stdout_level, stderr_level, buffer).
NoSelf ==
  [instance |-> 0, stdout_wrapper |-> None, stderr_wrapper |-> None,
   stdout_level |-> 0, stderr_level |-> 0, buffer |-> <<>>,
   stdout_stream |-> "original", stderr_stream |-> "original",
   file_handler |-> None, loggly_handler |-> None, coloredlogs_handlers |-> {}]

Threads == 1..NumThreads

\* a thread that is in no call; otherwise op is the call it is in, with its
\* arguments (kind: the sink of a use_file / use_loggly call; enabled; level),
\* pc the statement it is at, i the position of a log call in the handler
\* list; raised is the exception its last call ended with, got the handler
\* its log call dispatched to last, as it was then
Idle ==
  [pc |-> "idle", op |-> "", kind |-> "", enabled |-> FALSE, level |-> 0, i |-> 0,
   raised |-> "", got |-> <<>>]

Init ==
  /\ registry = {}
  /\ logger = NoLogger
  /\ self = NoSelf
  /\ sys = [stdout |-> "original", stderr |-> "original"]
  /\ out = NoOut
  /\ hist = [redirect_out |-> FALSE, redirect_err |-> FALSE, written |-> <<>>,
             out_level |-> 0, err_level |-> 0, other_out |-> FALSE, other_err |-> FALSE,
             attaches |-> 0, detached |-> FALSE]
  /\ threads = [t \in Threads |-> Idle]
  /\ heap = <<>>
  /\ other = [logger |-> NoLogger, self |-> NoSelf]

\* ---------------------------------------------------------- LogOne
\* coloredlogs.install(level, logger, stream=_original_stderr): any stream
\* handler of the logger that writes to that stream is replaced by a new one
\* at `level`, and the logger's level is lowered to `level` if it is above it.
coloredlogs_install(lg, level) ==
  LET kept == SelectSeq(lg.handlers, LAMBDA h : h.kind # "console")
      h == Handler(FreshId(kept), "console", level, "default_console", "stderr",
                   NoRotation, "")
  IN [lg EXCEPT !.level = IF getEffectiveLevel(lg) > level THEN level ELSE @,
                !.handlers = Append(kept, h)]

\* LogOne.__init__(logger_name, level)
LogOne_init(s, level) ==
  LET lg == coloredlogs_install(s.logger, level)
  IN [s EXCEPT !.logger = lg,
               !.self = [NoSelf EXCEPT !.instance = s.self.instance + 1,
                                       !.coloredlogs_handlers = Ids(lg.handlers)]]

\* set_level that sets the level of every handler on the logger
set_level_all(s, level) ==
  LET hs == s.logger.handlers
  IN [s EXCEPT !.logger.handlers = [i \in 1..Len(hs) |-> [hs[i] EXCEPT !.level = level]],
               !.logger.level = level]

\* LogOne.set_level(level)
set_level(s, level) ==
  LET hs == s.logger.handlers
  IN [s EXCEPT !.logger.handlers =
                 [i \in 1..Len(hs) |->
                    IF hs[i].id \in s.self.coloredlogs_handlers
                    THEN [hs[i] EXCEPT !.level = level] ELSE hs[i]],
               !.logger.level = level]

\* disable_logger that, enabling, installs whatever adapters the LogOne has
disable_logger_adapters(s, disabled) ==
  [s EXCEPT !.sys = IF disabled
                    THEN [stdout |-> "original", stderr |-> "original"]
                    ELSE [stdout |-> IF s.self.stdout_wrapper # None THEN "wrapper"
                                     ELSE "original",
                          stderr |-> IF s.self.stderr_wrapper # None THEN "wrapper"
                                     ELSE "original"],
            !.logger.disabled = disabled]

\* LogOne.disable_logger(disabled)
disable_logger(s, disabled) ==
  [s EXCEPT !.sys = IF disabled
                    THEN [stdout |-> "original", stderr |-> "original"]
                    ELSE [stdout |-> s.self.stdout_stream, stderr |-> s.self.stderr_stream],
            !.logger.disabled = disabled]

\* LogOne.redirect_stdout(enabled, log_level)
redirect_stdout(s, enabled, log_level) ==
  LET me == IF enabled
            THEN [s.self EXCEPT !.stdout_wrapper = 1, !.stdout_level = log_level,
                                !.stdout_stream = "wrapper"]
            ELSE [s.self EXCEPT !.stdout_stream = "original"]
  IN [s EXCEPT !.self = me, !.sys.stdout = me.stdout_stream]

\* redirect_stderr that makes a new adapter on every call with enabled=True
redirect_stderr_new(s, enabled, log_level) ==
  LET me == IF enabled
            THEN [s.self EXCEPT !.stderr_wrapper = 1, !.stderr_level = log_level,
                                !.buffer = <<>>, !.stderr_stream = "wrapper"]
            ELSE [s.self EXCEPT !.stderr_stream = "original"]
  IN [s EXCEPT !.self = me, !.sys.stderr = me.stderr_stream]

\* LogOne.redirect_stderr(enabled, log_level): a new adapter starts with an
\* empty buffer, an existing one keeps its buffer
redirect_stderr(s, enabled, log_level) ==
  LET me == IF enabled
            THEN [s.self EXCEPT !.stderr_wrapper = 1, !.stderr_level = log_level,
                                !.buffer = IF s.self.stderr_wrapper = None THEN <<>> ELSE @,
                                !.stderr_stream = "wrapper"]
            ELSE [s.self EXCEPT !.stderr_stream = "original"]
  IN [s EXCEPT !.self = me, !.sys.stderr = me.stderr_stream]

\* use_file, lines 163-187: the new handler, configured, then added
attach_file(s, file_name, level, rotation, log_format) ==
  LET h == Handler(FreshId(s.logger.handlers), "file", level,
                   IF log_format = "" THEN "default_file" ELSE log_format,
                   file_name, rotation, "")
  IN [s EXCEPT !.self.file_handler = h.id, !.logger.handlers = addHandler(@, h)]

\* use_file, lines 189-191: the handler removed and forgotten
detach_file(s) ==
  [s EXCEPT !.logger.handlers = removeHandler(@, s.self.file_handler),
            !.self.file_handler = None]

\* use_file whose detach forgets the handler without removing it
use_file_orphan(s, enabled, file_name, level, rotation, log_format) ==
  IF enabled
  THEN IF s.self.file_handler = None
       THEN IF file_name = "" THEN Raise(s, "AssertionError")
            ELSE attach_file(s, file_name, level, rotation, log_format)
       ELSE s
  ELSE [s EXCEPT !.self.file_handler = None]

\* use_file that sets the level of a sink that is already attached
use_file_relevel(s, enabled, file_name, level, rotation, log_format) ==
  IF enabled
  THEN IF s.self.file_handler = None
       THEN IF file_name = "" THEN Raise(s, "AssertionError")
            ELSE attach_file(s, file_name, level, rotation, log_format)
       ELSE LET hs == s.logger.handlers
            IN [s EXCEPT !.logger.handlers =
                           [k \in 1..Len(hs) |->
                              IF hs[k].id = s.self.file_handler
                              THEN [hs[k] EXCEPT !.level = level] ELSE hs[k]]]
  ELSE IF s.self.file_handler # None THEN detach_file(s) ELSE s

\* use_file without the check of the file name
use_file_unchecked(s, enabled, file_name, level, rotation, log_format) ==
  IF enabled
  THEN IF s.self.file_handler = None
       THEN attach_file(s, file_name, level, rotation, log_format)
       ELSE s
  ELSE IF s.self.file_handler # None THEN detach_file(s) ELSE s

\* use_file that attaches a new handler whether or not one is attached
use_file_again(s, enabled, file_name, level, rotation, log_format) ==
  IF enabled
  THEN IF file_name = "" THEN Raise(s, "AssertionError")
       ELSE attach_file(s, file_name, level, rotation, log_format)
  ELSE IF s.self.file_handler # None THEN detach_file(s) ELSE s

\* LogOne.use_file(enabled, file_name, level, when, backup_count, log_format)
use_file(s, enabled, file_name, level, rotation, log_format) ==
  IF enabled
  THEN IF s.self.file_handler = None
       THEN IF file_name = "" THEN Raise(s, "AssertionError")
            ELSE attach_file(s, file_name, level, rotation, log_format)
       ELSE s
  ELSE IF s.self.file_handler # None THEN detach_file(s) ELSE s

\* use_loggly that sets the level of a sink that is already attached
use_loggly_relevel(s, name, enabled, loggly_token, loggly_tag, level, log_format) ==
  IF enabled
  THEN IF s.self.loggly_handler = None
       THEN IF loggly_token = "" THEN Raise(s, "AssertionError")
            ELSE LET h == Handler(FreshId(s.logger.handlers), "loggly", level,
                                  IF log_format = "" THEN "default_loggly" ELSE log_format,
                                  loggly_token, NoRotation,
                                  IF loggly_tag = "" THEN name ELSE loggly_tag)
                 IN [s EXCEPT !.self.loggly_handler = h.id,
                              !.logger.handlers = addHandler(@, h)]
       ELSE LET hs == s.logger.handlers
            IN [s EXCEPT !.logger.handlers =
                           [k \in 1..Len(hs) |->
                              IF hs[k].id = s.self.loggly_handler
                              THEN [hs[k] EXCEPT !.level = level] ELSE hs[k]]]
  ELSE IF s.self.loggly_handler # None
       THEN [s EXCEPT !.logger.handlers = removeHandler(@, s.self.loggly_handler),
                      !.self.loggly_handler = None]
       ELSE s

\* LogOne.use_loggly(enabled, loggly_token, loggly_tag, level, log_format)
use_loggly(s, name, enabled, loggly_token, loggly_tag, level, log_format) ==
  IF enabled
  THEN IF s.self.loggly_handler = None
       THEN IF loggly_token = "" THEN Raise(s, "AssertionError")
            ELSE LET h == Handler(FreshId(s.logger.handlers), "loggly", level,
                                  IF log_format = "" THEN "default_loggly" ELSE log_format,
                                  loggly_token, NoRotation,
                                  IF loggly_tag = "" THEN name ELSE loggly_tag)
                 IN [s EXCEPT !.self.loggly_handler = h.id,
                              !.logger.handlers = addHandler(@, h)]
       ELSE s
  ELSE IF s.self.loggly_handler # None
       THEN [s EXCEPT !.logger.handlers = removeHandler(@, s.self.loggly_handler),
                      !.self.loggly_handler = None]
       ELSE s

\* ------------------------------------------------- adapters and sinks
\* a write that overwrites the buffer
StdErrWrapper_write_over(s, chunk) == [s EXCEPT !.self.buffer = chunk]

\* StdErrWrapper.write(buffer)
StdErrWrapper_write(s, chunk) == [s EXCEPT !.self.buffer = @ \o chunk]

\* Handler.handleError(record): a diagnostic is printed to sys.stderr, which
\* is the error adapter when stderr is redirected
handleError(s) ==
  LET s1 == [s EXCEPT !.out.errors = @ + 1]
  IN IF s1.sys.stderr = "wrapper" THEN StdErrWrapper_write(s1, Diagnostic) ELSE s1

\* LogglyHandler.emit, lines 260-265: a record with exception info gets the
\* traceback flattened into its message, escaped, and loses the exception info
flatten_exc(rec) ==
  IF rec.exc
  THEN [rec EXCEPT !.msg = json_escape(rec.msg \o <<"\n">> \o TraceText), !.exc = FALSE]
  ELSE rec

\* what requests.post and the two assertions on its response raise
Raised(resp) ==
  CASE resp \in {"transport", "timeout"} -> "RequestException"
    [] resp \in {"status", "body"} -> "AssertionError"
    [] OTHER -> ""

\* the POST whose handler catches only a RequestException
LogglyHandler_post_uncaught(s, resp) ==
  LET s1 == [s EXCEPT !.out.posts = @ + 1, !.out.resp = resp]
      exc == Raised(resp)
  IN IF exc = "" THEN s1
     ELSE IF exc = "RequestException" THEN handleError(s1)
     ELSE Raise(s1, exc)

\* LogglyHandler.emit, lines 267-276: one POST; a RequestException or an
\* AssertionError goes to handleError, anything else to the caller
LogglyHandler_post(s, resp) ==
  LET s1 == [s EXCEPT !.out.posts = @ + 1, !.out.resp = resp]
      exc == Raised(resp)
  IN IF exc = "" THEN s1
     ELSE IF exc \in {"RequestException", "AssertionError"} THEN handleError(s1)
     ELSE Raise(s1, exc)

\* Formatter.formatException: the traceback text less its last line break
formatException(text) ==
  IF text # <<>> /\ text[Len(text)] = "\n" THEN SubSeq(text, 1, Len(text) - 1) ELSE text

\* logging.Formatter.format(record), the %(message)s part: the message, then
\* on a new line the traceback text, which is rendered once from the
\* exception info and cached on the record (exc_text) for the next formatter
Formatter_format(rec) ==
  LET text == IF rec.exc /\ rec.exc_text = <<>> THEN formatException(TraceText)
              ELSE rec.exc_text
      line == IF rec.msg # <<>> /\ rec.msg[Len(rec.msg)] = "\n" THEN <<>> ELSE <<"\n">>
  IN [rec |-> [rec EXCEPT !.exc_text = text],
      body |-> IF text = <<>> THEN rec.msg ELSE rec.msg \o line \o text]

\* Handler.handle(record) of the handler h: the record as the sink receives
\* it (msg, exc), what the sink writes or posts for it (body), and the
\* record as the sink leaves it to the handlers after it.  The file sink
\* formats the record itself, the remote sink flattens it first, and the
\* console sink, installed with colors, formats a copy.
handle(s, h, rec, resp) ==
  LET f == Formatter_format(IF h.kind = "loggly" THEN flatten_exc(rec) ELSE rec)
      s1 == [s EXCEPT !.out.delivered =
                        Append(@, [id |-> h.id, kind |-> h.kind, level |-> rec.level,
                                   msg |-> rec.msg, exc |-> rec.exc, body |-> f.body])]
  IN [s |-> IF h.kind = "loggly" THEN LogglyHandler_post(s1, resp) ELSE s1,
      rec |-> IF h.kind = "console" THEN rec ELSE f.rec]

\* Logger.callHandlers(record): every handler whose level the record reaches,
\* in the order of the handler list, until one raises
RECURSIVE callHandlers(_, _, _, _, _)
callHandlers(s, hs, i, rec, resp) ==
  IF i > Len(hs) \/ s.out.raised # "" THEN s
  ELSE IF rec.level >= hs[i].level
       THEN LET r == handle(s, hs[i], rec, resp)
            IN callHandlers(r.s, hs, i + 1, r.rec, resp)
       ELSE callHandlers(s, hs, i + 1, rec, resp)

\* isEnabledFor with the logger's own threshold left out
isEnabledFor_anyLevel(lg, level) == ~lg.disabled

\* Logger.isEnabledFor(level)
isEnabledFor(lg, level) == ~lg.disabled /\ level >= getEffectiveLevel(lg)

\* Logger.log(level, msg) and debug(), info(), ..., exception()
Logger_log(s, level, msg, exc, resp) ==
  LET s1 == [s EXCEPT !.out.calls = Append(@, [level |-> level, msg |-> msg])]
  IN IF isEnabledFor(s1.logger, level)
     THEN callHandlers(s1, s1.logger.handlers, 1,
                       [level |-> level, msg |-> msg, exc |-> exc, exc_text |-> <<>>], resp)
     ELSE s1

\* a write that logs the chunk as it is
StdOutWrapper_write_raw(s, chunk, resp) ==
  IF Len(chunk) > 0 THEN Logger_log(s, s.self.stdout_level, chunk, FALSE, resp) ELSE s

\* StdOutWrapper.write(buffer)
StdOutWrapper_write(s, chunk, resp) ==
  LET buffer == strip(chunk)
  IN IF Len(buffer) > 0 THEN Logger_log(s, s.self.stdout_level, buffer, FALSE, resp) ELSE s

\* StdOutWrapper.flush()
StdOutWrapper_flush(s) == s

\* StdErrWrapper.flush()
StdErrWrapper_flush(s, resp) ==
  IF Len(s.self.buffer) > 0
  THEN LET s1 == Logger_log(s, s.self.stderr_level, s.self.buffer, FALSE, resp)
       IN IF s1.out.raised # "" THEN s1 ELSE [s1 EXCEPT !.self.buffer = <<>>]
  ELSE s

\* --------------------------------------------------------- Registry
\* get_logger(name): the Logger registered under the name, constructed and
\* registered on the first lookup
get_logger(s, reg, name, level) ==
  LET s1 == IF name \in reg THEN s ELSE LogOne_init(s, level)
  IN [s1 EXCEPT !.out.ret = s1.self.instance]

\* ------------------------------------------------------------ actions
Commit(s) ==
  /\ Len(s.self.buffer) <= MaxBuf
  /\ logger' = s.logger
  /\ self' = s.self
  /\ sys' = s.sys
  /\ out' = s.out
  /\ other' = other
  /\ UNCHANGED <<threads, heap>>

Constructed == registry # {}

\* a response is an input only of a call that posts
Posted(s, resp) == s.out.posts = 0 => resp = "ok"

\* the diagnostics that the call ending in s printed into the error adapter
Diagnostics(s) ==
  IF sys.stderr = "wrapper" THEN [i \in 1..s.out.errors |-> Diagnostic] ELSE <<>>

GetLogger ==
  \E name \in Names, level \in Thresholds :
    /\ LET s0 == [Begin(State, "get_logger", TRUE) EXCEPT !.out.before = (name \in registry)]
       IN Commit(get_logger(s0, registry, name, level))
    /\ registry' = registry \cup {name}
    /\ UNCHANGED hist

SetLevel ==
  \E level \in Thresholds :
    /\ Constructed
    /\ Commit(set_level([Begin(State, "set_level", TRUE) EXCEPT !.out.level = level], level))
    /\ UNCHANGED <<registry, hist>>

UseFile ==
  \E enabled \in BOOLEAN, a \in FileArgs, level \in Thresholds :
    /\ Constructed
    /\ LET s0 == [Begin(State, "use_file", enabled)
                    EXCEPT !.out.arg = a.file_name, !.out.level = level,
                           !.out.before = (self.file_handler # None)]
       IN Commit(use_file(s0, enabled, a.file_name, level,
                          [when |-> a.when, backup_count |-> a.backup_count], a.log_format))
    /\ UNCHANGED <<registry, hist>>

UseLoggly ==
  \E name \in registry, enabled \in BOOLEAN, a \in LogglyArgs, level \in Thresholds :
    /\ LET s0 == [Begin(State, "use_loggly", enabled)
                    EXCEPT !.out.arg = a.loggly_token, !.out.level = level,
                           !.out.before = (self.loggly_handler # None)]
       IN Commit(use_loggly(s0, name, enabled, a.loggly_token, a.loggly_tag, level,
                            a.log_format))
    /\ UNCHANGED <<registry, hist>>

\* logger.debug(), info(), warning(), error(), critical(); exception() is
\* error() with the exception info attached
Log ==
  \E level \in Levels, exc \in BOOLEAN, resp \in Responses :
    /\ Constructed
    /\ exc => level = ERROR
    /\ LET s == Logger_log([Begin(State, "log", exc) EXCEPT !.out.level = level],
                           level, Msg, exc, resp)
       IN Posted(s, resp) /\ Commit(s) /\ hist' = [hist EXCEPT !.written = @ \o Diagnostics(s)]
    /\ UNCHANGED registry

DisableLogger ==
  \E disabled \in BOOLEAN :
    /\ Constructed
    /\ Commit(disable_logger(Begin(State, "disable_logger", disabled), disabled))
    /\ UNCHANGED <<registry, hist>>

RedirectStdout ==
  \E enabled \in BOOLEAN, log_level \in AdapterLevels :
    /\ Constructed
    /\ Commit(redirect_stdout([Begin(State, "redirect_stdout", enabled)
                                 EXCEPT !.out.level = log_level], enabled, log_level))
    /\ hist' = [hist EXCEPT !.redirect_out = enabled, !.other_out = FALSE,
                            !.out_level = IF enabled THEN log_level ELSE @]
    /\ UNCHANGED registry

RedirectStderr ==
  \E enabled \in BOOLEAN, log_level \in AdapterLevels :
    /\ Constructed
    /\ Commit(redirect_stderr([Begin(State, "redirect_stderr", enabled)
                                 EXCEPT !.out.level = log_level], enabled, log_level))
    /\ hist' = [hist EXCEPT !.redirect_err = enabled, !.other_err = FALSE,
                            !.err_level = IF enabled THEN log_level ELSE @]
    /\ UNCHANGED registry

\* sys.stdout.write(chunk), as print() does
StdoutWrite ==
  \E chunk \in Chunks, resp \in Responses :
    /\ Constructed
    /\ LET s0 == [Begin(State, "stdout.write", TRUE) EXCEPT !.out.stream = sys.stdout,
                                                            !.out.text = chunk]
           s == IF sys.stdout = "wrapper" THEN StdOutWrapper_write(s0, chunk, resp) ELSE s0
       IN /\ Posted(s, resp) /\ Commit(s)
          /\ hist' = [hist EXCEPT !.written = @ \o Diagnostics(s)]
    /\ UNCHANGED registry

\* sys.stdout.write(Msg): a client that prints one text
StdoutWriteMsg ==
  \E chunk \in {Msg}, resp \in Responses :
    /\ Constructed
    /\ LET s0 == [Begin(State, "stdout.write", TRUE) EXCEPT !.out.stream = sys.stdout,
                                                            !.out.text = chunk]
           s == IF sys.stdout = "wrapper" THEN StdOutWrapper_write(s0, chunk, resp) ELSE s0
       IN /\ Posted(s, resp) /\ Commit(s)
          /\ hist' = [hist EXCEPT !.written = @ \o Diagnostics(s)]
    /\ UNCHANGED registry

\* sys.stdout.flush()
StdoutFlush ==
  /\ Constructed
  /\ LET s0 == [Begin(State, "stdout.flush", TRUE) EXCEPT !.out.stream = sys.stdout]
     IN Commit(IF sys.stdout = "wrapper" THEN StdOutWrapper_flush(s0) ELSE s0)
  /\ UNCHANGED <<registry, hist>>

\* sys.stderr.write(chunk), as the interpreter does when it reports an error
StderrWrite ==
  \E chunk \in Chunks :
    /\ Constructed
    /\ LET s0 == [Begin(State, "stderr.write", TRUE) EXCEPT !.out.stream = sys.stderr,
                                                            !.out.text = chunk]
       IN Commit(IF sys.stderr = "wrapper" THEN StdErrWrapper_write(s0, chunk) ELSE s0)
    /\ hist' = [hist EXCEPT !.written = IF sys.stderr = "wrapper" /\ chunk # <<>>
                                        THEN Append(@, chunk) ELSE @]
    /\ UNCHANGED registry

\* sys.stderr.flush()
StderrFlush ==
  \E resp \in Responses :
    /\ Constructed
    /\ LET s0 == [Begin(State, "stderr.flush", TRUE) EXCEPT !.out.stream = sys.stderr]
           s == IF sys.stderr = "wrapper" THEN StdErrWrapper_flush(s0, resp) ELSE s0
       IN Posted(s, resp) /\ Commit(s)
    /\ hist' = [hist EXCEPT !.written = IF sys.stderr = "wrapper" THEN <<>> ELSE @]
    /\ UNCHANGED registry

\* ------------------------------------------ a second LogOne (other)
\* the name of the logger of the second LogOne
OtherName == "other"

\* a stream as the other LogOne of the process names it: its own adapter is
\* the first one's "other_wrapper"
Flip(stream) ==
  CASE stream = "wrapper" -> "other_wrapper"
    [] stream = "other_wrapper" -> "wrapper"
    [] OTHER -> stream

FlipSys(streams) == [stdout |-> Flip(streams.stdout), stderr |-> Flip(streams.stderr)]

\* the state as a call on the second LogOne starts in it
OtherState(op, enabled) ==
  [Begin([logger |-> other.logger, self |-> other.self, sys |-> FlipSys(sys), out |-> out],
         op, enabled) EXCEPT !.out.name = OtherName]

CommitOther(s) ==
  /\ other' = [logger |-> s.logger, self |-> s.self]
  /\ sys' = FlipSys(s.sys)
  /\ out' = s.out
  /\ UNCHANGED <<registry, logger, self, threads, heap>>

OtherConstructed == other.self.instance # 0

\* LogOne(logger_name=OtherName), with the default level
OtherInit ==
  /\ ~OtherConstructed
  /\ CommitOther(LogOne_init(OtherState("__init__", TRUE), WARNING))
  /\ UNCHANGED hist

\* disable_logger on the second LogOne
OtherDisableLogger ==
  \E disabled \in BOOLEAN :
    /\ OtherConstructed
    /\ CommitOther(disable_logger(OtherState("disable_logger", disabled), disabled))
    /\ UNCHANGED hist

\* redirect_stdout on the second LogOne, with the default log_level
OtherRedirectStdout ==
  \E enabled \in BOOLEAN :
    /\ OtherConstructed
    /\ CommitOther(redirect_stdout(OtherState("redirect_stdout", enabled), enabled, INFO))
    /\ hist' = [hist EXCEPT !.other_out = enabled]

\* redirect_stderr on the second LogOne, with the default log_level
OtherRedirectStderr ==
  \E enabled \in BOOLEAN :
    /\ OtherConstructed
    /\ CommitOther(redirect_stderr(OtherState("redirect_stderr", enabled), enabled, ERROR))
    /\ hist' = [hist EXCEPT !.other_err = enabled]

\* ------------------------------------------------------------ threads
\* The statements of use_file / use_loggly and of a log call, one step each,
\* on c = [logger, self, heap, th]: th is the thread that takes the step.
\* Every statement reads self.__file_handler / self.__loggly_handler anew.

\* the sinks that threads attach and detach
ThreadKinds == {"file"}

\* the arguments of the use_file / use_loggly calls that threads make
ThreadArgs(kind) ==
  IF kind = "file"
  THEN [target |-> "logs/a.log", rotation |-> [when |-> "d", backup_count |-> 30],
        tag |-> "", fmt |-> "default_file"]
  ELSE [target |-> "TOKEN-A", rotation |-> NoRotation, tag |-> "example",
        fmt |-> "default_loggly"]

\* None as an element of the logger's handler list
NullHandler == Handler(None, "none", NOTSET, "", "", NoRotation, "")

SetRef(me, kind, id) ==
  IF kind = "file" THEN [me EXCEPT !.file_handler = id] ELSE [me EXCEPT !.loggly_handler = id]

\* the handler objects off the logger that the LogOne still refers to
collect(me, hp) ==
  SelectSeq(hp, LAMBDA h : h.id # None /\ h.id \in {me.file_handler, me.loggly_handler})

\* the handler object of an identity, on the logger or off it
object(lg, hp, id) ==
  LET all == lg.handlers \o hp
  IN all[CHOOSE i \in 1..Len(all) : all[i].id = id]

\* Handler.setFormatter / Handler.setLevel on the object of an identity
setFormatter(hs, id, fmt) ==
  [i \in 1..Len(hs) |-> IF hs[i].id = id THEN [hs[i] EXCEPT !.fmt = fmt] ELSE hs[i]]

setLevel(hs, id, level) ==
  [i \in 1..Len(hs) |-> IF hs[i].id = id THEN [hs[i] EXCEPT !.level = level] ELSE hs[i]]

\* the call returns, or raises exc
Return(c, exc) ==
  [c EXCEPT !.th = [Idle EXCEPT !.op = c.th.op, !.raised = exc, !.got = c.th.got]]

\* lines 159-161 and 189 (202-204 and 231): the tests on enabled and on the
\* reference, and the assertion
use_check(c) ==
  LET ref == Ref(c.self, c.th.kind)
  IN IF c.th.enabled
     THEN IF ref = None
          THEN IF ThreadArgs(c.th.kind).target = "" THEN Return(c, "AssertionError")
               ELSE [c EXCEPT !.th.pc = "new"]
          ELSE Return(c, "")
     ELSE IF ref # None THEN [c EXCEPT !.th.pc = "remove_handler"] ELSE Return(c, "")

\* lines 164-171 (211-219): the reference is set to a new handler, which has
\* no formatter and the level NOTSET
use_new(c) ==
  LET a == ThreadArgs(c.th.kind)
      h == Handler(FreshId(c.logger.handlers \o c.heap), c.th.kind, NOTSET, "",
                   a.target, a.rotation, a.tag)
      me == SetRef(c.self, c.th.kind, h.id)
  IN [c EXCEPT !.self = me, !.heap = collect(me, Append(@, h)), !.th.pc = "setFormatter"]

\* lines 180-181 (222-223): self.__file_handler.setFormatter(fmt=formatter)
use_setFormatter(c) ==
  LET ref == Ref(c.self, c.th.kind)
      fmt == ThreadArgs(c.th.kind).fmt
  IN IF ref = None THEN Return(c, "AttributeError")
     ELSE [c EXCEPT !.logger.handlers = setFormatter(@, ref, fmt),
                    !.heap = setFormatter(@, ref, fmt),
                    !.th.pc = "setLevel"]

\* line 184 (226): self.__file_handler.setLevel(level=level)
use_setLevel(c) ==
  LET ref == Ref(c.self, c.th.kind)
  IN IF ref = None THEN Return(c, "AttributeError")
     ELSE [c EXCEPT !.logger.handlers = setLevel(@, ref, c.th.level),
                    !.heap = setLevel(@, ref, c.th.level),
                    !.th.pc = "add_handler"]

\* line 187 (229): self.add_handler(hdlr=self.__file_handler); Logger.addHandler
\* appends whatever it is given, also None, unless it is in the list
use_add_handler(c) ==
  LET ref == Ref(c.self, c.th.kind)
      h == IF ref = None THEN NullHandler ELSE object(c.logger, c.heap, ref)
  IN Return([c EXCEPT !.logger.handlers = addHandler(@, h),
                      !.heap = removeHandler(@, ref)], "")

\* line 190 (232): self.remove_handler(hdlr=self.__file_handler); the handler
\* is still referred to
use_remove_handler(c) ==
  LET ref == Ref(c.self, c.th.kind)
      on == ref \in Ids(c.logger.handlers)
  IN [c EXCEPT !.logger.handlers = removeHandler(@, ref),
               !.heap = IF on /\ ref # None THEN Append(@, object(c.logger, c.heap, ref))
                        ELSE @,
               !.th.pc = "clear"]

\* line 191 (233): self.__file_handler = None
use_clear(c) ==
  LET me == SetRef(c.self, c.th.kind, None)
  IN Return([c EXCEPT !.self = me, !.heap = collect(me, @)], "")

\* Logger.log: the test isEnabledFor(level)
log_check(c) ==
  IF isEnabledFor(c.logger, c.th.level) THEN [c EXCEPT !.th.pc = "callHandlers", !.th.i = 1]
  ELSE Return(c, "")

\* Logger.callHandlers, one turn of `for hdlr in c.handlers`: the list is
\* read at the position the loop is at; the test on hdlr.level raises when
\* hdlr is None
log_callHandlers(c) ==
  LET hs == c.logger.handlers
      i == c.th.i
      seen == <<[kind |-> hs[i].kind, level |-> hs[i].level, fmt |-> hs[i].fmt]>>
  IN IF i > Len(hs) THEN Return(c, "")
     ELSE IF hs[i].kind = "none" THEN Return([c EXCEPT !.th.got = seen], "AttributeError")
     ELSE IF c.th.level >= hs[i].level THEN [c EXCEPT !.th.got = seen, !.th.i = i + 1]
     ELSE [c EXCEPT !.th.i = i + 1]

ThreadState(t) == [logger |-> logger, self |-> self, heap |-> heap, th |-> threads[t]]

CommitThread(t, c) ==
  /\ logger' = c.logger
  /\ self' = c.self
  /\ heap' = c.heap
  /\ threads' = [threads EXCEPT ![t] = c.th]
  /\ out' = NoOut
  /\ UNCHANGED <<registry, sys, other>>

\* the thread t is at the statement pc
At(t, pc) == Constructed /\ threads[t].pc = pc

\* a thread calls use_file / use_loggly
ThreadUse ==
  \E t \in Threads, kind \in ThreadKinds, enabled \in BOOLEAN, level \in Thresholds :
    /\ At(t, "idle")
    /\ ~enabled => level = DEBUG
    /\ enabled => Len(logger.handlers) + Len(heap)
                   + Cardinality({u \in Threads : threads[u].pc = "new"}) < MaxHandlers
    /\ CommitThread(t, use_check([ThreadState(t) EXCEPT
                                   !.th = [Idle EXCEPT !.op = OpOf(kind), !.kind = kind,
                                                       !.enabled = enabled,
                                                       !.level = level]]))
    /\ hist' = [hist EXCEPT !.attaches = IF enabled /\ @ < 2 THEN @ + 1 ELSE @,
                            !.detached = @ \/ ~enabled]

ThreadNew ==
  \E t \in Threads :
    At(t, "new") /\ CommitThread(t, use_new(ThreadState(t))) /\ UNCHANGED hist

ThreadSetFormatter ==
  \E t \in Threads :
    At(t, "setFormatter") /\ CommitThread(t, use_setFormatter(ThreadState(t)))
    /\ UNCHANGED hist

ThreadSetLevel ==
  \E t \in Threads :
    At(t, "setLevel") /\ CommitThread(t, use_setLevel(ThreadState(t))) /\ UNCHANGED hist

ThreadAddHandler ==
  \E t \in Threads :
    At(t, "add_handler") /\ CommitThread(t, use_add_handler(ThreadState(t)))
    /\ UNCHANGED hist

ThreadRemoveHandler ==
  \E t \in Threads :
    At(t, "remove_handler") /\ CommitThread(t, use_remove_handler(ThreadState(t)))
    /\ UNCHANGED hist

ThreadClear ==
  \E t \in Threads :
    At(t, "clear") /\ CommitThread(t, use_clear(ThreadState(t))) /\ UNCHANGED hist

\* a thread calls error()
ThreadLog ==
  \E t \in Threads, level \in {ERROR} :
    /\ At(t, "idle")
    /\ CommitThread(t, log_check([ThreadState(t) EXCEPT
                                   !.th = [Idle EXCEPT !.op = "log", !.level = level]]))
    /\ UNCHANGED hist

ThreadCallHandlers ==
  \E t \in Threads :
    At(t, "callHandlers") /\ CommitThread(t, log_callHandlers(ThreadState(t)))
    /\ UNCHANGED hist

\* ----------------------------------------------------- specifications
\* a client that configures the sinks and logs
Next ==
  \/ GetLogger
  \/ SetLevel
  \/ UseFile
  \/ UseLoggly
  \/ Log
  \/ DisableLogger

Spec == Init /\ [][Next]_vars

\* a client that redirects the process streams and disables the logger
NextRedirect ==
  \/ GetLogger
  \/ DisableLogger
  \/ RedirectStdout
  \/ RedirectStderr

SpecRedirect == Init /\ [][NextRedirect]_vars

\* a client that redirects sys.stdout and prints
NextStdout ==
  \/ GetLogger
  \/ SetLevel
  \/ DisableLogger
  \/ RedirectStdout
  \/ StdoutWrite
  \/ StdoutFlush

SpecStdout == Init /\ [][NextStdout]_vars

\* a client that redirects sys.stderr, with errors reported on it
NextStderr ==
  \/ GetLogger
  \/ DisableLogger
  \/ RedirectStderr
  \/ StderrWrite
  \/ StderrFlush

SpecStderr == Init /\ [][NextStderr]_vars

\* a client that redirects both streams, over and over, and prints
NextAdapters ==
  \/ GetLogger
  \/ RedirectStdout
  \/ RedirectStderr
  \/ StdoutWriteMsg
  \/ StderrWrite
  \/ StderrFlush

SpecAdapters == Init /\ [][NextAdapters]_vars

\* a client with two LogOnes that redirects the streams through either
NextTwo ==
  \/ GetLogger
  \/ DisableLogger
  \/ RedirectStdout
  \/ RedirectStderr
  \/ OtherInit
  \/ OtherDisableLogger
  \/ OtherRedirectStdout
  \/ OtherRedirectStderr

SpecTwo == Init /\ [][NextTwo]_vars

\* threads that attach and detach the sinks of one LogOne and log through it
NextThreads ==
  \/ GetLogger
  \/ ThreadUse
  \/ ThreadNew
  \/ ThreadSetFormatter
  \/ ThreadSetLevel
  \/ ThreadAddHandler
  \/ ThreadRemoveHandler
  \/ ThreadClear
  \/ ThreadLog
  \/ ThreadCallHandlers

SpecThreads == Init /\ [][NextThreads]_vars

\* ------------------------------------------------------------ claims
\* the number of records of the last call that the handler `id` received
Received(id) == Cardinality({j \in 1..Len(out.delivered) : out.delivered[j].id = id})

\* the handler the LogOne knows as its file sink, if it is on the logger
FileSinks == {i \in 1..Len(logger.handlers) : logger.handlers[i].id = self.file_handler}

\* C1, as stated: on an enabled Logger a record at level L is delivered to an
\* attached sink with threshold T if and only if L >= T.
C1_DeliveredIffAtLeastSinkThreshold ==
  (out.op = "log" /\ ~logger.disabled) =>
    \A i \in 1..Len(logger.handlers) :
      Received(logger.handlers[i].id) = 1 <=> out.level >= logger.handlers[i].level

\* C1, amended: a record at level L is delivered to an attached sink with
\* threshold T, once, if and only if the Logger is enabled, L is at least the
\* Logger's own effective threshold and L >= T; otherwise it is not delivered.
C1_DeliveredIffLoggerAndSinkThreshold ==
  out.op = "log" =>
    \A i \in 1..Len(logger.handlers) :
      LET h == logger.handlers[i]
          due == ~logger.disabled /\ out.level >= getEffectiveLevel(logger)
                 /\ out.level >= h.level
      IN Received(h.id) = (IF due THEN 1 ELSE 0)

\* C1: an info() record reached a file sink attached at DEBUG, on a Logger
\* whose own threshold is DEBUG
C1_Witness ==
  /\ out.op = "log" /\ out.level = INFO
  /\ getEffectiveLevel(logger) = DEBUG
  /\ \E i \in FileSinks : logger.handlers[i].level = DEBUG /\ Received(logger.handlers[i].id) = 1

\* attached: the LogOne refers to a handler, and that handler is the one
\* handler of the kind on the logger
Attached(lg, me, kind) ==
  /\ Ref(me, kind) # None
  /\ Cardinality(OfKind(lg.handlers, kind)) = 1
  /\ \A i \in OfKind(lg.handlers, kind) : lg.handlers[i].id = Ref(me, kind)

\* absent: the LogOne refers to none, and none of the kind is on the logger
Absent(lg, me, kind) == Ref(me, kind) = None /\ OfKind(lg.handlers, kind) = {}

\* the handlers that a record of the last log call is due to
Due(h) ==
  ~logger.disabled /\ out.level >= getEffectiveLevel(logger) /\ out.level >= h.level

C2_Step(kind) ==
  /\ out'.op = OpOf(kind) =>
       /\ Attached(logger, self, kind) \/ Absent(logger, self, kind)
       /\ Attached(logger', self', kind) \/ Absent(logger', self', kind)
       /\ (out'.enabled /\ out'.raised = "") => Attached(logger', self', kind)
       /\ (out'.enabled /\ Attached(logger, self, kind)) =>
            Attached(logger', self', kind) /\ out'.raised = ""
       /\ ~out'.enabled => Absent(logger', self', kind) /\ out'.raised = ""
       /\ (~out'.enabled /\ Absent(logger, self, kind)) => logger' = logger /\ self' = self
       /\ out'.raised # "" => Absent(logger, self, kind) /\ Absent(logger', self', kind)
  /\ (out'.op = "log" /\ Absent(logger, self, kind)) =>
       \A j \in 1..Len(out'.delivered) : out'.delivered[j].kind # kind

\* C2: each optional sink is attached or absent; a use_file / use_loggly call
\* with enabled=True that returns leaves it attached, one with enabled=False
\* leaves it absent, with its handler off the logger, and never raises; a
\* call that raises leaves it absent; while it is absent no record reaches a
\* handler of its kind.
C2_SinkStateMachine == [][\A kind \in Kinds : C2_Step(kind)]_vars

\* C2: a file sink was attached before the remote sink and is detached again
C2_Witness ==
  /\ out.op = "use_file" /\ ~out.enabled /\ out.before
  /\ Absent(logger, self, "file")
  /\ Attached(logger, self, "loggly") /\ self.loggly_handler = 3

\* C3: a use_file / use_loggly call with enabled=True on a Logger whose sink
\* of that kind is attached changes nothing (not the sink, its threshold, its
\* format, its rotation, nor the handler list) and does not raise, whatever
\* its other arguments are.
C3_SecondAttachIsNoOp ==
  [][\A kind \in Kinds :
       (out'.op = OpOf(kind) /\ out'.enabled /\ Ref(self, kind) # None) =>
         /\ logger' = logger /\ self' = self /\ sys' = sys
         /\ out'.raised = ""]_vars

\* C3: a second use_file call named another path (also the empty one) than
\* the attached sink's
C3_Witness ==
  /\ out.op = "use_file" /\ out.enabled /\ out.before /\ out.raised = ""
  /\ \E i \in FileSinks : logger.handlers[i].target # out.arg

\* C4: a use_file call with an empty file name, or a use_loggly call with an
\* empty token, with enabled=True and the sink absent, raises to its caller and
\* changes nothing; with a name or a token it attaches the sink, also after a
\* call that failed.
C4_AttachValidates ==
  [][\A kind \in Kinds :
       (out'.op = OpOf(kind) /\ out'.enabled /\ Ref(self, kind) = None) =>
         IF out'.arg = ""
         THEN /\ out'.raised = "AssertionError"
              /\ logger' = logger /\ self' = self /\ sys' = sys
              /\ Absent(logger', self', kind)
         ELSE /\ out'.raised = ""
              /\ Attached(logger', self', kind)
              /\ \A i \in OfKind(logger'.handlers, kind) :
                   logger'.handlers[i].target = out'.arg]_vars

\* C4: a use_loggly call without a token failed on a Logger that has a file sink
C4_Witness ==
  /\ out.op = "use_loggly" /\ out.enabled /\ out.raised = "AssertionError"
  /\ Absent(logger, self, "loggly") /\ Attached(logger, self, "file")

\* C8: a log call on a Logger with the remote sink makes at most one POST,
\* one per record the remote sink receives, and returns normally whatever the
\* POST comes back with; a failed POST is reported once through handleError,
\* and every sink the record is due to still receives it, once.
C8_RemoteFailureStaysLocal ==
  out.op = "log" =>
    /\ out.raised = ""
    /\ out.posts <= 1
    /\ out.posts = Cardinality({j \in 1..Len(out.delivered) : out.delivered[j].kind = "loggly"})
    /\ out.errors = (IF out.posts = 1 /\ out.resp # "ok" THEN 1 ELSE 0)
    /\ \A i \in 1..Len(logger.handlers) :
         Due(logger.handlers[i]) => Received(logger.handlers[i].id) = 1

\* C8: the POST failed on its status and the file sink, attached after the
\* remote sink, received the record after it
C8_Witness ==
  /\ out.op = "log" /\ out.resp = "status" /\ out.raised = "" /\ out.posts = 1
  /\ \E j \in 2..Len(out.delivered) :
       out.delivered[j - 1].kind = "loggly" /\ out.delivered[j].kind = "file"

\* C9: set_level(level) sets the logger's level and the level of every console
\* handler to level, and changes nothing else: not the level of the file or
\* the remote handler, nor the handler list, nor the LogOne.
C9_SetLevelFrame ==
  [][out'.op = "set_level" =>
       /\ logger'.level = out'.level
       /\ logger'.disabled = logger.disabled
       /\ Len(logger'.handlers) = Len(logger.handlers)
       /\ \A i \in 1..Len(logger.handlers) :
            logger'.handlers[i] =
              IF logger.handlers[i].kind = "console"
              THEN [logger.handlers[i] EXCEPT !.level = out'.level]
              ELSE logger.handlers[i]
       /\ self' = self /\ sys' = sys]_vars

\* C9: set_level(ERROR) on a Logger whose remote sink, attached first, and file
\* sink have other thresholds
C9_Witness ==
  /\ out.op = "set_level" /\ out.level = ERROR /\ logger.level = ERROR
  /\ Attached(logger, self, "file") /\ Attached(logger, self, "loggly")
  /\ self.loggly_handler < self.file_handler
  /\ \A i \in 1..Len(logger.handlers) :
       logger.handlers[i].level = (IF logger.handlers[i].kind = "console" THEN ERROR
                                   ELSE IF logger.handlers[i].kind = "file" THEN DEBUG
                                   ELSE WARNING)

SinksOf(lg, kind) == SelectSeq(lg.handlers, LAMBDA h : h.kind = kind)

\* C14, as stated: a use_file / use_loggly call with enabled=True on a Logger
\* whose sink of that kind is attached sets the level of that sink to the
\* level of the call and creates no duplicate sink.
C14_SecondAttachSetsLevel ==
  \A kind \in Kinds :
    (out.op = OpOf(kind) /\ out.enabled /\ out.before) =>
      /\ Len(SinksOf(logger, kind)) = 1
      /\ SinksOf(logger, kind)[1].level = out.level

\* C14, amended: such a call leaves the sink at the level it was attached
\* with, whatever the level of the call is, and creates no duplicate sink:
\* the handlers of the kind on the logger are the one handler they were.
C14_SecondAttachKeepsLevel ==
  [][\A kind \in Kinds :
       (out'.op = OpOf(kind) /\ out'.enabled /\ out'.before) =>
         /\ Len(SinksOf(logger, kind)) = 1
         /\ SinksOf(logger', kind) = SinksOf(logger, kind)
         /\ Ref(self', kind) = SinksOf(logger, kind)[1].id]_vars

\* C14: a second use_loggly call asked for ERROR on a sink attached at DEBUG
C14_Witness ==
  /\ out.op = "use_loggly" /\ out.enabled /\ out.before /\ out.level = ERROR
  /\ Len(SinksOf(logger, "loggly")) = 1 /\ SinksOf(logger, "loggly")[1].level = DEBUG

\* the stream a channel is set to when its redirection is on / off
Channel(on) == IF on THEN "wrapper" ELSE "original"

\* C5: after disable_logger(True) sys.stdout and sys.stderr are the original
\* streams; after disable_logger(False) each is the LogOne's adapter if the
\* last redirect call for it had enabled=True, and the original stream if it
\* had enabled=False or there was none.
C5_DisableRestoresRedirection ==
  out.op = "disable_logger" =>
    /\ logger.disabled = out.enabled
    /\ IF out.enabled
       THEN sys.stdout = "original" /\ sys.stderr = "original"
       ELSE /\ sys.stdout = Channel(hist.redirect_out)
            /\ sys.stderr = Channel(hist.redirect_err)
            /\ hist.redirect_out => self.stdout_wrapper # None
            /\ hist.redirect_err => self.stderr_wrapper # None

\* C5: the Logger is enabled again after stderr was redirected and released
\* and stdout is redirected
C5_Witness ==
  /\ out.op = "disable_logger" /\ ~out.enabled
  /\ sys.stdout = "wrapper" /\ sys.stderr = "original"
  /\ self.stderr_wrapper # None

\* b is t without its leading and trailing whitespace
IsStripped(b, t) ==
  \E i \in 0..Len(t), j \in 0..Len(t) :
    /\ i + j <= Len(t)
    /\ b = SubSeq(t, i + 1, Len(t) - j)
    /\ \A k \in 1..i : t[k] \in Whitespace
    /\ \A k \in (Len(t) - j + 1)..Len(t) : t[k] \in Whitespace
    /\ b = <<>> \/ (b[1] \notin Whitespace /\ b[Len(b)] \notin Whitespace)

\* C6: a write to the output adapter makes one logger.log call, at the
\* adapter's level and with the chunk less its leading and trailing whitespace
\* as message, when that text is not empty, and none when it is; it changes
\* neither the adapter nor the logger; flush does nothing; neither raises.
C6_StdoutWriteLogsStripped ==
  [][/\ (out'.op = "stdout.write" /\ out'.stream = "wrapper") =>
          /\ \E b \in TextsOf(Len(out'.text)) :
               /\ IsStripped(b, out'.text)
               /\ out'.calls = IF b = <<>> THEN <<>>
                               ELSE <<[level |-> self.stdout_level, msg |-> b]>>
          /\ out'.raised = ""
          /\ self' = self /\ logger' = logger /\ sys' = sys
     /\ (out'.op = "stdout.flush" /\ out'.stream = "wrapper") =>
          /\ out'.calls = <<>> /\ out'.raised = ""
          /\ self' = self /\ logger' = logger /\ sys' = sys]_vars

\* C6: a chunk with whitespace around its text was logged without it
C6_Witness ==
  /\ out.op = "stdout.write" /\ out.stream = "wrapper"
  /\ Len(out.calls) = 1 /\ out.calls[1].msg = <<"a">> /\ Len(out.text) > 1

RECURSIVE Concat(_)
Concat(chunks) == IF chunks = <<>> THEN <<>> ELSE Head(chunks) \o Concat(Tail(chunks))

\* C7: a write to the error adapter makes no logger.log call; a flush makes
\* one, at the adapter's level, with the chunks written since the last flush,
\* joined in the order written, as message, and none when there was no such
\* text; after it the buffer is empty.
C7_StderrFlushLogsWrites ==
  [][/\ (out'.op = "stderr.write" /\ out'.stream = "wrapper") =>
          /\ out'.calls = <<>> /\ out'.delivered = <<>> /\ out'.raised = ""
          /\ logger' = logger /\ sys' = sys
     /\ (out'.op = "stderr.flush" /\ out'.stream = "wrapper") =>
          /\ out'.calls = IF hist.written = <<>> THEN <<>>
                          ELSE <<[level |-> self.stderr_level, msg |-> Concat(hist.written)]>>
          /\ out'.raised = ""
          /\ self'.buffer = <<>>]_vars

\* C7: a flush logged text that took more than one write
C7_Witness ==
  /\ out.op = "stderr.flush" /\ out.stream = "wrapper"
  /\ Len(out.calls) = 1 /\ out.calls[1].msg = <<"a", " ", "a">>
  /\ self.buffer = <<>>

\* C18: while the Logger is disabled, sys.stdout and sys.stderr are the
\* original streams, never an adapter of the Logger, so that no text printed
\* then goes to an adapter of a disabled logger.
C18_DisabledKeepsOriginalStreams ==
  logger.disabled => sys.stdout = "original" /\ sys.stderr = "original"

\* C20: a flush of the error adapter removes from the buffer only text that
\* it handed to the logger in a record that the logger accepted: when the
\* written text is gone after the flush, the logger was enabled for the
\* adapter's level and one record with all of that text was handed to it.
C20_FlushDiscardsNothing ==
  [][(out'.op = "stderr.flush" /\ out'.stream = "wrapper" /\ hist.written # <<>>
        /\ self'.buffer = <<>>) =>
       /\ isEnabledFor(logger, self.stderr_level)
       /\ Len(out'.calls) = 1 /\ out'.calls[1].msg = Concat(hist.written)
       /\ out'.delivered # <<>>]_vars

\* C12: a redirect_stdout / redirect_stderr call with enabled=True on a Logger
\* that has an adapter of that kind keeps that adapter and sets its level,
\* and changes nothing else but the stream the channel is set to; the error
\* adapter keeps its buffer.  Every later write to the output adapter and
\* flush of the error adapter logs at the level of the last such call, and
\* the flush logs the text written before the call with the text after it.
C12_RedirectReusesAdapter ==
  [][/\ (out'.op = "redirect_stdout" /\ out'.enabled /\ self.stdout_wrapper # None) =>
          /\ self' = [self EXCEPT !.stdout_level = out'.level, !.stdout_stream = "wrapper"]
          /\ sys' = [sys EXCEPT !.stdout = "wrapper"]
          /\ logger' = logger /\ out'.raised = ""
     /\ (out'.op = "redirect_stderr" /\ out'.enabled /\ self.stderr_wrapper # None) =>
          /\ self' = [self EXCEPT !.stderr_level = out'.level, !.stderr_stream = "wrapper"]
          /\ self'.buffer = Concat(hist.written)
          /\ sys' = [sys EXCEPT !.stderr = "wrapper"]
          /\ logger' = logger /\ out'.raised = ""
     /\ (out'.op = "stdout.write" /\ out'.stream = "wrapper") =>
          \A j \in 1..Len(out'.calls) : out'.calls[j].level = hist.out_level
     /\ (out'.op = "stderr.flush" /\ out'.stream = "wrapper" /\ hist.written # <<>>) =>
          out'.calls = <<[level |-> hist.err_level, msg |-> Concat(hist.written)]>>]_vars

\* C12: redirect_stderr(True, INFO) was called on a Logger whose error adapter
\* holds unflushed text and whose output is redirected at ERROR
C12_Witness ==
  /\ out.op = "redirect_stderr" /\ out.enabled /\ out.level = INFO
  /\ self.stderr_level = INFO /\ self.buffer = <<"a", " ">>
  /\ hist.written = <<<<"a">>, <<" ">>>>
  /\ sys.stdout = "wrapper" /\ self.stdout_level = ERROR

\* what a formatter makes of the record of the last log call when no handler
\* has touched the record
Rendered == IF out.enabled THEN Msg \o <<"\n">> \o formatException(TraceText) ELSE Msg

\* C13: the body the remote sink posts for a record with an attached error is
\* the message followed by the traceback text, escaped for a JSON string, with
\* the traceback in it once; for a record without one it is the message.
C13_RemoteBodyHasTraceOnce ==
  out.op = "log" =>
    \A j \in 1..Len(out.delivered) :
      out.delivered[j].kind = "loggly" =>
        out.delivered[j].body =
          (IF out.enabled THEN json_escape(Msg \o <<"\n">> \o TraceText) ELSE Msg)

\* C17: a record is not modified by being dispatched: every sink receives
\* the message and the attached error of the call, and the file sink writes
\* the same text for it, whatever other sinks are attached and wherever the
\* file sink is in the order of attachment.
C17_SinksAreIndependent ==
  out.op = "log" =>
    \A j \in 1..Len(out.delivered) :
      /\ out.delivered[j].msg = Msg
      /\ out.delivered[j].exc = out.enabled
      /\ out.delivered[j].kind = "file" => out.delivered[j].body = Rendered

\* C19: when the second LogOne is enabled and its last redirect_stdout call
\* had enabled=True, with no redirect_stdout call on the first LogOne after
\* it, sys.stdout is the second LogOne's adapter; likewise for sys.stderr.
C19_OtherKeepsItsRedirection ==
  ~other.logger.disabled =>
    /\ hist.other_out => sys.stdout = "other_wrapper"
    /\ hist.other_err => sys.stderr = "other_wrapper"

\* a handler whose formatter and level are set
Configured(h) == h.kind # "none" /\ h.fmt # "" /\ h.level # NOTSET

\* no thread is inside a call
AllIdle == \A t \in Threads : threads[t].pc = "idle"

\* C11: with threads calling use_file, use_loggly and the log methods on one
\* Logger, no log call dispatches a record to a handler that is still under
\* construction (on the handler list before its formatter and its level are
\* set) or that is being torn down.
C11_NoDispatchToUnfinishedSink ==
  \A t \in Threads :
    \A j \in 1..Len(threads[t].got) :
      /\ threads[t].got[j].kind # "none"
      /\ threads[t].got[j].fmt # ""
      /\ threads[t].got[j].level # NOTSET

\* C15: when threads have made only calls with enabled=True, whatever the
\* interleaving, once the calls have returned at most one handler of the kind
\* is on the logger, and it is the one the LogOne refers to.
C15_ConcurrentAttachesLeaveOneSink ==
  (AllIdle /\ ~hist.detached) =>
    \A kind \in Kinds :
      /\ Cardinality(OfKind(logger.handlers, kind)) <= 1
      /\ \A i \in OfKind(logger.handlers, kind) : logger.handlers[i].id = Ref(self, kind)

\* C16: when threads have made one use_file call with enabled=True and calls
\* with enabled=False, whatever the interleaving, no call raises, no None and
\* no handler without formatter or level is on the handler list, and once the
\* calls have returned a file handler is on the logger if and only if the
\* LogOne refers to it.
C16_AttachAgainstDetachIsClean ==
  hist.attaches <= 1 =>
    /\ \A t \in Threads : threads[t].op \in {OpOf(kind) : kind \in Kinds} =>
                             threads[t].raised = ""
    /\ \A i \in 1..Len(logger.handlers) : Configured(logger.handlers[i])
    /\ AllIdle => \A kind \in Kinds :
                    Attached(logger, self, kind) \/ Absent(logger, self, kind)

====
